---- MODULE Spec2Model ----
(***************************************************************************)
(* State-machine model of the shiny native drivers:                        *)
(*   gldriver/x11.c      - X11 + EGL: processEvents, doNewWindow,          *)
(*                         doShowWindow                                    *)
(*   windriver/*.c       - Windows: mainMessagePump, windowWndProc,        *)
(*                         utilityWindowWndProc, createWindow, sendFill,   *)
(*                         fillSrc, fillOver, blend, lastErrorToHRESULT    *)
(*   start               - startDriver, initWindowClass, initUtilityWindow *)
(* A build contains exactly one of the two drivers (build tags), so the    *)
(* variable "platform" is fixed by Init and every action belongs to one    *)
(* platform.                                                               *)
(***************************************************************************)
EXTENDS Integers, Sequences, FiniteSets, TLC

\* ------------------------------------------------------------------ bounds
\* native events the platform delivers in one run
MaxEvents == 2
\* largest value of the count field of an Expose event
MaxCount == 1
\* EGL surfaces one window can accumulate before the model stops showing it
MaxSurfaces == 2

\* window identifiers the X server can hand out
XWindowIds == {1, 2}
\* width/height pairs the X server reports in ConfigureNotify
XSizes == {<<1, 2>>, <<2, 1>>}
\* width/height arguments of doNewWindow
NewSizes == {<<640, 480>>}

\* inputs of one run: messages the platform posts to the UI thread's queue plus
\* requests submitted by the caller threads and by the host inside callbacks
MaxOps == 4

\* caller threads, next to the UI thread "ui"
Callers == {"c1", "c2"}
Threads == Callers \cup {"ui"}
\* handles CreateWindowExW can hand out for class shiny_Window
WWindowIds == {1, 2}
\* values GetLastError can hold after a failed call
LastErrors == {1400}

VARIABLES
    platform,   \* "x11" or "windows": which driver this build contains
    x_pc,       \* X11 UI thread: "idle", "processEvents" or "exit" (exit(1) was called)
    x_queue,    \* events pending on x_dpy, oldest first
    x_serial,   \* number of events the X server has sent so far
    x_taken,    \* events XNextEvent has removed, oldest first
    x_calls,    \* host callbacks issued by processEvents, oldest first
    x_win,      \* X server / EGL state of every window id
    x_last,     \* the last window request that ran
    w_win,      \* every HWND of class shiny_Window: state, owner thread, visibility
    w_msgq,     \* the UI thread's posted-message queue, oldest first
    w_serial,   \* number of messages the platform has posted so far
    w_posted,   \* every message the platform has posted, oldest first
    w_sent,     \* inter-thread sent messages waiting for the UI thread, oldest first
    w_stack,    \* per thread, the window-procedure activations in progress (top last)
    w_wait,     \* per thread, TRUE while it is blocked inside a cross-thread SendMessageW
    w_sub,      \* per thread, number of requests it has submitted
    w_reply,    \* per thread, the reply its latest finished request produced
    w_pump,     \* mainMessagePump: "running" or "returned"
    w_calls,    \* host callbacks issued by windowWndProc, oldest first
    w_retrieved,   \* messages GetMessage has retrieved, oldest first
    w_dispatched,  \* messages handed to TranslateMessage/DispatchMessage, oldest first
    w_exec,     \* per thread, the number of its latest request whose handler has started
    d_pc,       \* fill handler of windowWndProc: "off", "idle", "fillSrc", "fillOver", "blend", "ReleaseDC", "crashed"
    d_msg,      \* the fill message being handled
    d_color,    \* its wParam: the 32-bit color, as its two 16-bit halves
    d_rect,     \* the pixels inside the RECT lParam points to
    d_pix,      \* the window's pixels
    d_pix0,     \* the window's pixels when the handler was entered
    d_held,     \* GDI handles obtained and not yet released or deleted
    d_ok,       \* every platform call of the request has succeeded so far
    d_sel,      \* what was selected into the compatible DC when DeleteDC was called on it
    d_done,     \* fill requests handled to the end
    m_pc,       \* windowWndProc on one input message: "off", "idle" or "done"
    m_msg,      \* the message it was called with
    m_lParam,   \* its lParam, as its two 16-bit halves
    m_calls,    \* the sendMouseEvent calls it made
    e_pc,       \* lastErrorToHRESULT: "off", "idle" or "done"
    e_le,       \* what GetLastError returned (a DWORD read as signed 32 bits)
    e_hr,       \* what lastErrorToHRESULT returned
    e_lr,       \* what lastErrorToLRESULT yields for the same last error
    s_fn,       \* the start function being run: "off", "startDriver", "initWindowClass", "initUtilityWindow"
    s_pc,       \* "running", "returned" or "exit" (exit(1) was called)
    s_log,      \* the sub-steps run so far, each with its outcome
    s_result,   \* the HRESULT returned, or the sub-step named on stderr before exit(1)
    s_utilityWindow   \* the global utilityWindow

xvars == <<x_pc, x_queue, x_serial, x_taken, x_calls, x_win, x_last>>

wvars == <<w_win, w_msgq, w_serial, w_posted, w_sent, w_stack, w_wait, w_sub, w_reply,
           w_pump, w_calls, w_retrieved, w_dispatched, w_exec>>

dvars == <<d_pc, d_msg, d_color, d_rect, d_pix, d_pix0, d_held, d_ok, d_sel, d_done>>

\* the state of the parts modelled on their own
mvars == <<m_pc, m_msg, m_lParam, m_calls>>
evars == <<e_pc, e_le, e_hr, e_lr>>
svars == <<s_fn, s_pc, s_log, s_result, s_utilityWindow>>
gvars == <<dvars, mvars, evars, svars>>

vars == <<platform, xvars, wvars, gvars>>

\* ------------------------------------------------------------------ X11
\* XEvent, reduced to the fields processEvents reads
XEvent(type, window, serial, count, width, height, button) ==
    [type |-> type, window |-> window, serial |-> serial, count |-> count,
     width |-> width, height |-> height, button |-> button]

\* event types selected by doNewWindow's event mask; MapNotify comes with
\* StructureNotifyMask and is not translated by processEvents
XEventTypes ==
    {"ButtonPress", "ButtonRelease", "MotionNotify", "Expose", "ConfigureNotify", "MapNotify"}

NoWindow == [exists |-> FALSE, mapped |-> FALSE, surfaces |-> 0, width |-> 0, height |-> 0]

NoRequest == [op |-> "none", id |-> 0]

XInit ==
    /\ x_pc = "idle"
    /\ x_queue = <<>>
    /\ x_serial = 0
    /\ x_taken = <<>>
    /\ x_calls = <<>>
    /\ x_win = [w \in XWindowIds |-> NoWindow]
    /\ x_last = NoRequest

\* The X server sends one event for an existing window; Expose and the
\* pointer events are only generated for a mapped window.
XServerSend ==
    /\ platform = "x11"
    /\ x_pc # "exit"
    /\ x_serial < MaxEvents
    /\ \E w \in XWindowIds, type \in XEventTypes, c \in 0..MaxCount, sz \in XSizes :
        /\ x_win[w].exists
        /\ type \in {"ButtonPress", "ButtonRelease", "MotionNotify", "Expose"} => x_win[w].mapped
        /\ type # "Expose" => c = 0
        /\ type # "ConfigureNotify" => sz = <<1, 2>>
        /\ x_queue' = Append(x_queue,
              XEvent(type, w, x_serial + 1, c,
                     IF type = "ConfigureNotify" THEN sz[1] ELSE 0,
                     IF type = "ConfigureNotify" THEN sz[2] ELSE 0,
                     IF type \in {"ButtonPress", "ButtonRelease"} THEN 1 ELSE 0))
    /\ x_serial' = x_serial + 1
    /\ UNCHANGED <<platform, x_pc, x_taken, x_calls, x_win, x_last, wvars, gvars>>

\* processEvents without the test of ev.xexpose.count: every Expose is passed on.
XTranslate_EveryExpose(ev) ==
    IF ev.type = "Expose"
    THEN <<[cb |-> "onExpose", window |-> ev.window, serial |-> ev.serial,
            width |-> 0, height |-> 0, button |-> 0, dir |-> 0]>>
    ELSE <<>>

\* processEvents without the ConfigureNotify case: the size change is dropped.
XTranslate_NoResize(ev) ==
    IF ev.type = "Expose" /\ ev.count = 0
    THEN <<[cb |-> "onExpose", window |-> ev.window, serial |-> ev.serial,
            width |-> 0, height |-> 0, button |-> 0, dir |-> 0]>>
    ELSE <<>>

\* The host callbacks one event produces: the switch of processEvents.
XTranslate(ev) ==
    CASE ev.type \in {"ButtonPress", "ButtonRelease"} ->
            <<[cb |-> "onMouse", window |-> ev.window, serial |-> ev.serial,
               width |-> 0, height |-> 0, button |-> ev.button,
               dir |-> IF ev.type = "ButtonPress" THEN 1 ELSE 2]>>
      [] ev.type = "MotionNotify" ->
            <<[cb |-> "onMouse", window |-> ev.window, serial |-> ev.serial,
               width |-> 0, height |-> 0, button |-> 0, dir |-> 0]>>
      [] ev.type = "Expose" ->
            IF ev.count = 0
            THEN <<[cb |-> "onExpose", window |-> ev.window, serial |-> ev.serial,
                    width |-> 0, height |-> 0, button |-> 0, dir |-> 0]>>
            ELSE <<>>
      [] ev.type = "ConfigureNotify" ->
            <<[cb |-> "onResize", window |-> ev.window, serial |-> ev.serial,
               width |-> ev.width, height |-> ev.height, button |-> 0, dir |-> 0]>>
      [] OTHER -> <<>>

\* The host calls processEvents on the UI thread.
processEventsCall ==
    /\ platform = "x11"
    /\ x_pc = "idle"
    /\ x_pc' = "processEvents"
    /\ UNCHANGED <<platform, x_queue, x_serial, x_taken, x_calls, x_win, x_last, wvars, gvars>>

\* One iteration of the while loop: XPending is non-zero, XNextEvent removes
\* the oldest event and the switch translates it.
processEventsStep ==
    /\ platform = "x11"
    /\ x_pc = "processEvents"
    /\ Len(x_queue) > 0
    /\ x_taken' = Append(x_taken, Head(x_queue))
    /\ x_queue' = Tail(x_queue)
    /\ x_calls' = x_calls \o XTranslate(Head(x_queue))
    /\ UNCHANGED <<platform, x_pc, x_serial, x_win, x_last, wvars, gvars>>

\* processEvents with "if" for "while": it returns whatever is still pending.
processEventsReturn_Early ==
    /\ platform = "x11"
    /\ x_pc = "processEvents"
    /\ x_pc' = "idle"
    /\ UNCHANGED <<platform, x_queue, x_serial, x_taken, x_calls, x_win, x_last, wvars, gvars>>

\* XPending returned 0: the loop ends and processEvents returns.
processEventsReturn ==
    /\ platform = "x11"
    /\ x_pc = "processEvents"
    /\ Len(x_queue) = 0
    /\ x_pc' = "idle"
    /\ UNCHANGED <<platform, x_queue, x_serial, x_taken, x_calls, x_win, x_last, wvars, gvars>>

\* doNewWindow that also maps the window it creates.
doNewWindow_Mapped ==
    /\ platform = "x11"
    /\ x_pc = "idle"
    /\ \E w \in XWindowIds, sz \in NewSizes :
        /\ ~x_win[w].exists
        /\ \A v \in XWindowIds : v < w => x_win[v].exists
        /\ x_win' = [x_win EXCEPT ![w] =
              [exists |-> TRUE, mapped |-> TRUE, surfaces |-> 0,
               width |-> sz[1], height |-> sz[2]]]
        /\ x_last' = [op |-> "doNewWindow", id |-> w]
    /\ UNCHANGED <<platform, x_pc, x_queue, x_serial, x_taken, x_calls, wvars, gvars>>

\* doNewWindow: XCreateWindow and the size hints; the window is not mapped.
doNewWindow ==
    /\ platform = "x11"
    /\ x_pc = "idle"
    /\ \E w \in XWindowIds, sz \in NewSizes :
        /\ ~x_win[w].exists
        /\ \A v \in XWindowIds : v < w => x_win[v].exists
        /\ x_win' = [x_win EXCEPT ![w] =
              [exists |-> TRUE, mapped |-> FALSE, surfaces |-> 0,
               width |-> sz[1], height |-> sz[2]]]
        /\ x_last' = [op |-> "doNewWindow", id |-> w]
    /\ UNCHANGED <<platform, x_pc, x_queue, x_serial, x_taken, x_calls, wvars, gvars>>

\* What eglCreateWindowSurface can answer for a window: it fails on a window
\* that does not exist; on a window that already has a surface EGL specifies
\* EGL_BAD_ALLOC, and implementations that do not check hand out another one.
EglCreateWindowSurfaceOutcomes(win) ==
    IF ~win.exists THEN {"fail"} ELSE {"surface", "fail"}

\* doShowWindow: XMapWindow, then eglCreateWindowSurface; exit(1) if that fails.
doShowWindow ==
    /\ platform = "x11"
    /\ x_pc = "idle"
    /\ \E id \in XWindowIds : \E out \in EglCreateWindowSurfaceOutcomes(x_win[id]) :
        /\ x_win[id].surfaces < MaxSurfaces
        /\ IF out = "fail"
           THEN /\ x_pc' = "exit"
                /\ x_win' = [x_win EXCEPT ![id].mapped = x_win[id].exists]
                /\ x_last' = [op |-> "doShowWindow", id |-> id]
           ELSE /\ x_pc' = "idle"
                /\ x_win' = [x_win EXCEPT ![id].mapped = TRUE,
                                          ![id].surfaces = x_win[id].surfaces + 1]
                /\ x_last' = [op |-> "doShowWindow", id |-> id]
    /\ UNCHANGED <<platform, x_queue, x_serial, x_taken, x_calls, wvars, gvars>>

XNext ==
    \/ XServerSend
    \/ processEventsCall
    \/ processEventsStep
    \/ processEventsReturn
    \/ doNewWindow
    \/ doShowWindow

\* ------------------------------------------------------------------ Windows
\* HWND values: NULL, and the hidden utility window made by initUtilityWindow
NULL == 0
utilityWindow == 100
S_OK == 0
lS_OK == S_OK
E_FAIL == -2147467259
FACILITY_WIN32 == 7
SWP_NOSIZE == 1
SWP_NOMOVE == 2

\* 0x80000000 as a signed 32-bit integer
SEVERITY_ERROR_BIT == -2147483647 - 1

\* HRESULT_FROM_WIN32(x), x being the DWORD read as a signed 32-bit integer: a
\* value that is already <= 0 as an HRESULT is kept, any other gets the
\* failure bit and FACILITY_WIN32 over its low 16 bits
HRESULT_FROM_WIN32(x) ==
    IF x <= 0 THEN x ELSE ((x % 65536) + FACILITY_WIN32 * 65536) + SEVERITY_ERROR_BIT

\* lastErrorToHRESULT without the test for a last error of 0
lastErrorToHRESULT_NoZeroCase(le) == HRESULT_FROM_WIN32(le)

\* lastErrorToHRESULT, with le the value GetLastError returns (as signed 32 bits)
lastErrorToHRESULT(le) == IF le = 0 THEN E_FAIL ELSE HRESULT_FROM_WIN32(le)

lastErrorToLRESULT(le) == lastErrorToHRESULT(le)

\* the private messages of windriver.h
UtilityMessages == {"msgCreateWindow", "msgDestroyWindow"}
FillMessages == {"msgFillSrc", "msgFillOver"}
MouseMessages ==
    {"WM_MOUSEMOVE", "WM_LBUTTONDOWN", "WM_LBUTTONUP", "WM_MBUTTONDOWN", "WM_MBUTTONUP",
     "WM_RBUTTONDOWN", "WM_RBUTTONUP"}
KeyMessages == {"WM_KEYDOWN", "WM_KEYUP", "WM_SYSKEYDOWN", "WM_SYSKEYUP"}
\* the window messages the platform posts in this model
PostedMessages ==
    {"WM_PAINT", "WM_WINDOWPOSCHANGED", "WM_LBUTTONDOWN", "WM_CLOSE"}
\* WINDOWPOS.flags of a posted WM_WINDOWPOSCHANGED
WindowPosFlags == {SWP_NOSIZE, SWP_NOMOVE}

\* a posted MSG; "during" notes whether a request's window procedure was
\* running on the UI thread when the platform posted it
MSG(hwnd, message, flags, serial, during) ==
    [hwnd |-> hwnd, message |-> message, flags |-> flags, serial |-> serial,
     during |-> during]

\* one activation of a window procedure: the message, who sent it (a thread, or
\* "pump" for DispatchMessage) and as which of the sender's requests
Activation(proc, hwnd, message, wParam, flags, serial, from, n) ==
    [proc |-> proc, hwnd |-> hwnd, message |-> message, wParam |-> wParam, flags |-> flags,
     serial |-> serial, from |-> from, n |-> n, pc |-> "entry"]

RECT(left, top, right, bottom) ==
    [left |-> left, top |-> top, right |-> right, bottom |-> bottom]

\* the client rectangle GetClientRect stores for a window
ClientRect(hwnd) == RECT(0, 0, 640, 480)
\* what the uninitialised local r of windowWndProc can hold
UninitRects == {RECT(0, 0, 640, 480), RECT(7, 7, 7, 7)}

NoHwnd == [state |-> "none", owner |-> "ui", visible |-> FALSE, acks |-> 0]
NoReply == [n |-> 0, message |-> "none", lresult |-> 0, hwnd |-> NULL]

Top(stk) == stk[Len(stk)]
Pop(stk) == SubSeq(stk, 1, Len(stk) - 1)

WInit ==
    /\ w_win = [h \in WWindowIds |-> NoHwnd]
    /\ w_msgq = <<>>
    /\ w_serial = 0
    /\ w_posted = <<>>
    /\ w_sent = <<>>
    /\ w_stack = [t \in Threads |-> <<>>]
    /\ w_wait = [t \in Threads |-> FALSE]
    /\ w_sub = [t \in Threads |-> 0]
    /\ w_reply = [t \in Threads |-> NoReply]
    /\ w_pump = "running"
    /\ w_calls = <<>>
    /\ w_retrieved = <<>>
    /\ w_dispatched = <<>>
    /\ w_exec = [t \in Threads |-> 0]

\* A window procedure is running on the UI thread for a request (a sent message).
RequestRunning ==
    \E i \in 1..Len(w_stack["ui"]) : w_stack["ui"][i].from # "pump"

\* Inputs are still to come: messages posted and requests submitted so far.
RequestBudget == w_serial + w_sub["c1"] + w_sub["c2"] + w_sub["ui"] < MaxOps

\* The platform posts a message to the UI thread's queue: a window message for
\* a live window, or the thread message WM_QUIT.
PlatformPost ==
    /\ platform = "windows"
    /\ w_pump = "running"
    /\ RequestBudget
    /\ \E h \in WWindowIds \cup {NULL}, message \in PostedMessages \cup {"WM_QUIT"},
          flags \in WindowPosFlags :
        /\ message = "WM_QUIT" <=> h = NULL
        /\ h # NULL => w_win[h].state = "live"
        /\ message # "WM_WINDOWPOSCHANGED" => flags = SWP_NOSIZE
        /\ LET msg == MSG(h, message, IF message = "WM_WINDOWPOSCHANGED" THEN flags ELSE 0,
                          w_serial + 1, RequestRunning)
           IN  /\ w_msgq' = Append(w_msgq, msg)
               /\ w_posted' = Append(w_posted, msg)
    /\ w_serial' = w_serial + 1
    /\ UNCHANGED <<platform, xvars, gvars, w_win, w_sent, w_stack, w_wait, w_sub,
                   w_reply, w_pump, w_calls, w_retrieved, w_dispatched, w_exec>>

\* The thread on which SendMessageW runs the window procedure: the thread that
\* owns the window, whichever thread sends.
WndProcThread(sender, owner) == owner

\* SendMessageW(hwnd, uMsg, wParam, lParam) called on thread t. An invalid
\* handle makes it return 0 at once; for a window of the calling thread the
\* window procedure is called directly; otherwise the message is queued for
\* the owner and the caller blocks until the window procedure has returned.
SendMessageW(t, hwnd, uMsg, wParam) ==
    LET n == w_sub[t] + 1
        valid == hwnd = utilityWindow \/ (hwnd \in WWindowIds /\ w_win[hwnd].state = "live")
        owner == IF hwnd = utilityWindow THEN "ui" ELSE w_win[hwnd].owner
        proc == IF hwnd = utilityWindow THEN "utilityWindowWndProc" ELSE "windowWndProc"
    IN  /\ w_sub' = [w_sub EXCEPT ![t] = n]
        /\ IF ~valid
           THEN /\ w_reply' = [w_reply EXCEPT ![t] =
                      [n |-> n, message |-> "none", lresult |-> 0, hwnd |-> NULL]]
                /\ UNCHANGED <<w_sent, w_stack, w_wait, w_exec>>
           ELSE IF WndProcThread(t, owner) = t
           THEN /\ w_stack' = [w_stack EXCEPT ![t] =
                      Append(@, Activation(proc, hwnd, uMsg, wParam, 0, 0, t, n))]
                /\ w_exec' = [w_exec EXCEPT ![t] = n]
                /\ UNCHANGED <<w_sent, w_wait, w_reply>>
           ELSE /\ w_sent' = Append(w_sent,
                      [from |-> t, hwnd |-> hwnd, message |-> uMsg, wParam |-> wParam, n |-> n])
                /\ w_wait' = [w_wait EXCEPT ![t] = TRUE]
                /\ UNCHANGED <<w_stack, w_reply, w_exec>>

\* sendFill written with PostMessageW: the message is queued for the owner
\* and sendFill returns without waiting for the window procedure.
sendFill_Post(t, hwnd, uMsg) ==
    /\ w_sub' = [w_sub EXCEPT ![t] = w_sub[t] + 1]
    /\ w_sent' = Append(w_sent,
          [from |-> t, hwnd |-> hwnd, message |-> uMsg, wParam |-> 0, n |-> w_sub[t] + 1])
    /\ UNCHANGED <<w_stack, w_wait, w_reply, w_exec>>

\* sendFill through a request queue with a reply slot, whichever thread calls:
\* the request is queued for the UI thread and the caller waits for the reply.
sendFill_Queue(t, hwnd, uMsg) ==
    /\ w_sub' = [w_sub EXCEPT ![t] = w_sub[t] + 1]
    /\ w_sent' = Append(w_sent,
          [from |-> t, hwnd |-> hwnd, message |-> uMsg, wParam |-> 0, n |-> w_sub[t] + 1])
    /\ w_wait' = [w_wait EXCEPT ![t] = TRUE]
    /\ UNCHANGED <<w_stack, w_reply, w_exec>>

\* sendFill calling the window procedure itself instead of sending: the fill
\* runs on whichever thread called sendFill.
sendFill_Direct(t, hwnd, uMsg) ==
    /\ w_sub' = [w_sub EXCEPT ![t] = w_sub[t] + 1]
    /\ w_stack' = [w_stack EXCEPT ![t] =
          Append(@, Activation("windowWndProc", hwnd, uMsg, 0, 0, 0, t, w_sub[t] + 1))]
    /\ w_exec' = [w_exec EXCEPT ![t] = w_sub[t] + 1]
    /\ UNCHANGED <<w_sent, w_wait, w_reply>>

\* sendFill(hwnd, uMsg, r, color) called on thread t: the RECT r lives in
\* sendFill's own frame and its address travels in lParam.
sendFill(t, hwnd, uMsg) == SendMessageW(t, hwnd, uMsg, 0)

\* A thread is free to make a call: not blocked, and running no window procedure.
Free(t) == ~w_wait[t] /\ w_stack[t] = <<>>


\* A caller thread fills a window.
CallerSendFill ==
    /\ platform = "windows"
    /\ RequestBudget
    /\ \E t \in Callers, hwnd \in WWindowIds, uMsg \in FillMessages :
        /\ Free(t)
        /\ w_win[hwnd].state # "none"
        /\ sendFill(t, hwnd, uMsg)
    /\ UNCHANGED <<platform, xvars, gvars, w_win, w_msgq, w_serial, w_posted, w_pump, w_calls,
                   w_retrieved, w_dispatched>>

\* A caller thread posts create-window or destroy-window to the utility window.
CallerPost ==
    /\ platform = "windows"
    /\ RequestBudget
    /\ \E t \in Callers, uMsg \in UtilityMessages, h \in WWindowIds \cup {NULL} :
        /\ Free(t)
        /\ uMsg = "msgCreateWindow" <=> h = NULL
        /\ h # NULL => w_win[h].state # "none"
        /\ SendMessageW(t, utilityWindow, uMsg, h)
    /\ UNCHANGED <<platform, xvars, gvars, w_win, w_msgq, w_serial, w_posted, w_pump, w_calls,
                   w_retrieved, w_dispatched>>

\* A loop that also ends on WM_CLOSE.
GetMessage_CloseQuits(msg) == IF msg.message \in {"WM_QUIT", "WM_CLOSE"} THEN 0 ELSE 1

\* The while condition of mainMessagePump applied to what GetMessage returns
\* for a retrieved message: 0 for WM_QUIT, non-zero otherwise (with a NULL
\* window filter and a valid MSG pointer GetMessage does not fail).
GetMessage(msg) == IF msg.message = "WM_QUIT" THEN 0 ELSE 1

\* mainMessagePump waiting in GetMessage while a sent message is pending:
\* GetMessage runs the window procedure for it before it looks at the queue.
mainMessagePumpSent ==
    /\ platform = "windows"
    /\ w_pump = "running"
    /\ Free("ui")
    /\ w_sent # <<>>
    /\ LET m == Head(w_sent)
           proc == IF m.hwnd = utilityWindow THEN "utilityWindowWndProc" ELSE "windowWndProc"
       IN  /\ w_sent' = Tail(w_sent)
           /\ w_stack' = [w_stack EXCEPT !["ui"] =
                 Append(@, Activation(proc, m.hwnd, m.message, m.wParam, 0, 0, m.from, m.n))]
           /\ w_exec' = [w_exec EXCEPT ![m.from] = m.n]
    /\ UNCHANGED <<platform, xvars, gvars, w_win, w_msgq, w_serial, w_posted, w_wait, w_sub,
                   w_reply, w_pump, w_calls, w_retrieved, w_dispatched>>

\* GetClientRect(hwnd, &r): 0 on failure, leaving r as it was
GetClientRectOutcomes == {"ok", "fail"}

\* The host callbacks windowWndProc issues for a message, r being the local
\* RECT after the GetClientRect call: the switch of windowWndProc.
WndProcCallbacks(f, r) ==
    CASE f.message = "WM_PAINT" ->
            <<[cb |-> "handlePaint", hwnd |-> f.hwnd, serial |-> f.serial, r |-> RECT(0, 0, 0, 0)]>>
      [] f.message = "WM_WINDOWPOSCHANGED" ->
            IF (f.flags % (2 * SWP_NOSIZE)) \div SWP_NOSIZE # 0
            THEN <<>>
            ELSE <<[cb |-> "sendSizeEvent", hwnd |-> f.hwnd, serial |-> f.serial, r |-> r]>>
      [] f.message \in MouseMessages ->
            <<[cb |-> "sendMouseEvent", hwnd |-> f.hwnd, serial |-> f.serial, r |-> RECT(0, 0, 0, 0)]>>
      [] OTHER -> <<>>

\* DefWindowProcW destroys the window on WM_CLOSE; windowWndProc has no case
\* for WM_CLOSE, so the message reaches it.
DefWindowProcWDestroys(f) == f.message = "WM_CLOSE"

\* DestroyWindow(hwnd): the window is gone, its posted messages are discarded
\* and the threads blocked sending to it are released with 0.
DestroyedWin(hwnd, acks) ==
    [w_win EXCEPT ![hwnd] = [state |-> "destroyed", owner |-> @.owner, visible |-> FALSE,
                             acks |-> acks]]
DestroyedMsgq(q, hwnd) == SelectSeq(q, LAMBDA m : m.hwnd # hwnd)
DestroyedSent(hwnd) == SelectSeq(w_sent, LAMBDA m : m.hwnd # hwnd)
Released(hwnd) == {w_sent[i].from : i \in {j \in 1..Len(w_sent) : w_sent[j].hwnd = hwnd}}
ReleasedReply(u) == [n |-> w_sub[u], message |-> "none", lresult |-> 0, hwnd |-> NULL]

\* windowWndProc called by DispatchMessage with the activation f, q being the
\* message queue GetMessage left: it runs up to its host callback, where the
\* activation stays until the callback returns. A message with no callback is
\* finished here, by DefWindowProcW.
windowWndProc(f, q) ==
    \E out \in GetClientRectOutcomes, garbage \in UninitRects :
        /\ out = "ok" => garbage = RECT(0, 0, 640, 480)
        /\ (f.message # "WM_WINDOWPOSCHANGED" \/ WndProcCallbacks(f, garbage) = <<>>)
              => out = "ok"
        /\ LET r == IF out = "ok" THEN ClientRect(f.hwnd) ELSE garbage
               cbs == WndProcCallbacks(f, r)
           IN  IF cbs # <<>>
               THEN /\ w_calls' = w_calls \o cbs
                    /\ w_stack' = [w_stack EXCEPT !["ui"] = Append(@, [f EXCEPT !.pc = "callback"])]
                    /\ w_msgq' = q
                    /\ UNCHANGED <<w_win, w_sent, w_wait, w_reply>>
               ELSE /\ UNCHANGED <<w_calls, w_stack>>
                    /\ IF DefWindowProcWDestroys(f)
                       THEN /\ w_win' = DestroyedWin(f.hwnd, 0)
                            /\ w_msgq' = DestroyedMsgq(q, f.hwnd)
                            /\ w_sent' = DestroyedSent(f.hwnd)
                            /\ w_wait' = [u \in Threads |->
                                  IF u \in Released(f.hwnd) THEN FALSE ELSE w_wait[u]]
                            /\ w_reply' = [u \in Threads |->
                                  IF u \in Released(f.hwnd) THEN ReleasedReply(u)
                                  ELSE w_reply[u]]
                       ELSE /\ w_msgq' = q
                            /\ UNCHANGED <<w_win, w_sent, w_wait, w_reply>>

\* One iteration of mainMessagePump on a posted message: GetMessage retrieves
\* the oldest one; WM_QUIT ends the loop, anything else is translated and
\* dispatched to windowWndProc.
mainMessagePump ==
    /\ platform = "windows"
    /\ w_pump = "running"
    /\ Free("ui")
    /\ w_sent = <<>>
    /\ w_msgq # <<>>
    /\ LET msg == Head(w_msgq)
       IN  /\ w_retrieved' = Append(w_retrieved, msg)
           /\ IF GetMessage(msg) # 0
              THEN /\ w_dispatched' = Append(w_dispatched, msg)
                   /\ windowWndProc(Activation("windowWndProc", msg.hwnd, msg.message, 0,
                                               msg.flags, msg.serial, "pump", 0),
                                    Tail(w_msgq))
                   /\ UNCHANGED w_pump
              ELSE /\ w_pump' = "returned"
                   /\ w_msgq' = Tail(w_msgq)
                   /\ UNCHANGED <<w_calls, w_stack, w_win, w_sent, w_wait, w_reply,
                                  w_dispatched>>
    /\ UNCHANGED <<platform, xvars, gvars, w_serial, w_posted, w_sub, w_exec>>

\* The host, inside a callback running on thread t, fills a window.
HostCallbackSendFill(t) ==
    /\ platform = "windows"
    /\ ~w_wait[t]
    /\ w_stack[t] # <<>>
    /\ Top(w_stack[t]).pc = "callback"
    /\ RequestBudget
    /\ \E hwnd \in WWindowIds, uMsg \in FillMessages :
        /\ w_win[hwnd].state # "none"
        /\ sendFill(t, hwnd, uMsg)
    /\ UNCHANGED <<platform, xvars, gvars, w_win, w_msgq, w_serial, w_posted, w_pump, w_calls,
                   w_retrieved, w_dispatched>>

\* The host callback has returned: windowWndProc returns 0, or for WM_PAINT the
\* result of DefWindowProcW, which validates the window.
windowWndProcReturn(t) ==
    /\ platform = "windows"
    /\ ~w_wait[t]
    /\ w_stack[t] # <<>>
    /\ Top(w_stack[t]).pc = "callback"
    /\ w_stack' = [w_stack EXCEPT ![t] = Pop(@)]
    /\ UNCHANGED <<platform, xvars, gvars, w_win, w_msgq, w_serial, w_posted, w_sent, w_wait,
                   w_sub, w_reply, w_pump, w_calls, w_retrieved, w_dispatched, w_exec>>

\* The reply of a finished activation reaches its sender, which SendMessageW
\* then lets continue.
RepliedTo(f, lresult, hwnd) ==
    [w_reply EXCEPT ![f.from] =
        [n |-> f.n, message |-> f.message, lresult |-> lresult, hwnd |-> hwnd]]
Unblocked(f) == [w_wait EXCEPT ![f.from] = FALSE]

\* windowWndProc for msgFillSrc / msgFillOver: GetDC, fillSrc or fillOver on
\* the RECT lParam points to, ReleaseDC, then DefWindowProcW's result (0).
windowWndProcFill(t) ==
    /\ platform = "windows"
    /\ ~w_wait[t]
    /\ w_stack[t] # <<>>
    /\ LET f == Top(w_stack[t])
       IN  /\ f.proc = "windowWndProc"
           /\ f.message \in FillMessages
           /\ w_stack' = [w_stack EXCEPT ![t] = Pop(@)]
           /\ w_reply' = RepliedTo(f, 0, NULL)
           /\ w_wait' = Unblocked(f)
    /\ UNCHANGED <<platform, xvars, gvars, w_win, w_msgq, w_serial, w_posted, w_sent, w_sub,
                   w_pump, w_calls, w_retrieved, w_dispatched, w_exec>>

\* CreateWindowExW: a new handle, or NULL
CreateWindowExWOutcomes ==
    IF \E h \in WWindowIds : w_win[h].state = "none" THEN {"hwnd", "NULL"} ELSE {"NULL"}
NewHwnd == CHOOSE h \in WWindowIds :
    w_win[h].state = "none" /\ \A g \in WWindowIds : g < h => w_win[g].state # "none"

\* wShowWindow of the process's STARTUPINFO: the default, when the parent
\* process asked for no particular show state
wShowWindow == "SW_SHOWNORMAL"

\* ShowWindow(hwnd, nCmdShow): whether the window is visible afterwards;
\* SW_SHOWDEFAULT takes the show state from the process's STARTUPINFO.
ShowWindow(nCmdShow) ==
    IF nCmdShow = "SW_SHOWDEFAULT" THEN wShowWindow # "SW_HIDE" ELSE nCmdShow # "SW_HIDE"

\* createWindow(phwnd) run on thread t: w_win afterwards, *phwnd and the result,
\* for one outcome of CreateWindowExW and one value of GetLastError.
createWindow(t, out, le) ==
    IF out = "NULL"
    THEN [win |-> w_win, hwnd |-> NULL, lresult |-> lastErrorToLRESULT(le)]
    ELSE [win |-> [w_win EXCEPT ![NewHwnd] =
                      [state |-> "live", owner |-> t,
                       visible |-> ShowWindow("SW_SHOWDEFAULT"), acks |-> 0]],
          hwnd |-> NewHwnd, lresult |-> lS_OK]

\* utilCreateWindow(phwnd): the exported wrapper around createWindow
utilCreateWindow(t, out, le) == createWindow(t, out, le)

\* utilityWindowWndProc for msgCreateWindow
utilityWindowWndProcCreate(t) ==
    /\ platform = "windows"
    /\ ~w_wait[t]
    /\ w_stack[t] # <<>>
    /\ LET f == Top(w_stack[t])
       IN  /\ f.proc = "utilityWindowWndProc"
           /\ f.message = "msgCreateWindow"
           /\ \E out \in CreateWindowExWOutcomes :
              \E le \in (IF out = "NULL" THEN LastErrors ELSE {0}) :
                /\ LET res == utilCreateWindow(t, out, le)
                   IN  /\ w_win' = res.win
                       /\ w_reply' = RepliedTo(f, res.lresult, res.hwnd)
           /\ w_stack' = [w_stack EXCEPT ![t] = Pop(@)]
           /\ w_wait' = Unblocked(f)
    /\ UNCHANGED <<platform, xvars, gvars, w_msgq, w_serial, w_posted, w_sent, w_sub, w_pump,
                   w_calls, w_retrieved, w_dispatched, w_exec>>

\* utilDestroyWindow(hwnd) -> destroyWindow(hwnd): DestroyWindow on a live
\* window succeeds, on any other handle it fails with the last error.
utilityWindowWndProcDestroy(t) ==
    /\ platform = "windows"
    /\ ~w_wait[t]
    /\ w_stack[t] # <<>>
    /\ LET f == Top(w_stack[t])
           hwnd == f.wParam
       IN  /\ f.proc = "utilityWindowWndProc"
           /\ f.message = "msgDestroyWindow"
           /\ w_stack' = [w_stack EXCEPT ![t] = Pop(@)]
           /\ IF w_win[hwnd].state = "live"
              THEN /\ w_win' = DestroyedWin(hwnd, 1)
                   /\ w_msgq' = DestroyedMsgq(w_msgq, hwnd)
                   /\ w_sent' = DestroyedSent(hwnd)
                   /\ w_wait' = [u \in Threads |->
                         IF u \in Released(hwnd) \/ u = f.from THEN FALSE ELSE w_wait[u]]
                   /\ w_reply' = [u \in Threads |->
                         IF u = f.from
                         THEN [n |-> f.n, message |-> f.message, lresult |-> lS_OK,
                               hwnd |-> NULL]
                         ELSE IF u \in Released(hwnd) THEN ReleasedReply(u)
                         ELSE w_reply[u]]
              ELSE /\ \E le \in LastErrors :
                        w_reply' = RepliedTo(f, lastErrorToLRESULT(le), NULL)
                   /\ w_wait' = Unblocked(f)
                   /\ UNCHANGED <<w_win, w_msgq, w_sent>>
    /\ UNCHANGED <<platform, xvars, gvars, w_serial, w_posted, w_sub, w_pump, w_calls,
                   w_retrieved, w_dispatched, w_exec>>

WNext ==
    \/ PlatformPost
    \/ CallerSendFill
    \/ CallerPost
    \/ mainMessagePumpSent
    \/ mainMessagePump
    \/ \E t \in Threads : HostCallbackSendFill(t)
    \/ \E t \in Threads : windowWndProcReturn(t)
    \/ \E t \in Threads : windowWndProcFill(t)
    \/ \E t \in Threads : utilityWindowWndProcCreate(t)
    \/ \E t \in Threads : utilityWindowWndProcDestroy(t)

\* ------------------------------------------------------------------ drawing
\* fill requests handled in one run
MaxFills == 1
\* values of the alpha byte and of a color byte the callers pass
AlphaSamples == {0, 128, 255}
ChannelSamples == {0, 1, 255}
\* the window's pixels: pixel 1 lies inside the RECT of the request, pixel 2 outside
PixelIds == {1, 2}
Rects == {{1}}

\* a 32-bit word as its two 16-bit halves
DWORD(hi, lo) == [hi |-> hi, lo |-> lo]
\* the color 0xAARRGGBB
ARGB(a, r, g, b) == DWORD(a * 256 + r, g * 256 + b)
Colors ==
    {ARGB(a, r, g, b) : a \in AlphaSamples, r \in ChannelSamples, g \in ChannelSamples,
                        b \in ChannelSamples}

\* (x >> n) & 0xFF on a 32-bit word, n a multiple of 8
ShiftRightAndFF(x, n) ==
    CASE n = 0 -> x.lo % 256
      [] n = 8 -> (x.lo \div 256) % 256
      [] n = 16 -> x.hi % 256
      [] n = 24 -> (x.hi \div 256) % 256

\* the RGB macro of wingdi.h: r | (g << 8) | (b << 16), a COLORREF 0x00bbggrr
RGB(r, g, b) == r + (g * 256) + (b * 65536)

Pixel(r, g, b) == [r |-> r, g |-> g, b |-> b]
\* the pixel GDI paints for a COLORREF: red is its low byte
COLORREFPixel(cr) == Pixel(cr % 256, (cr \div 256) % 256, (cr \div 65536) % 256)
\* pixel values the window can hold before a request
DstSamples == {Pixel(0, 0, 0), Pixel(10, 200, 255)}

\* fillSrc handing its argument to CreateSolidBrush as it came
fillSrcColor_Unconverted(color) == ((color.hi % 256) * 65536) + color.lo

\* fillSrc: color = RGB((color >> 16) & 0xFF, (color >> 8) & 0xFF, color & 0xFF)
fillSrcColor(color) ==
    RGB(ShiftRightAndFF(color, 16), ShiftRightAndFF(color, 8), ShiftRightAndFF(color, 0))

\* FillRect(dc, r, brush) with a solid brush of COLORREF cr
FillRect(pix, rect, cr) ==
    [p \in PixelIds |-> IF p \in rect THEN COLORREFPixel(cr) ELSE pix[p]]

\* the stored word read with red in the low byte, as a COLORREF is
DIBPixel_RedLow(color) ==
    [r |-> color.lo % 256, g |-> (color.lo \div 256) % 256,
     b |-> color.hi % 256, a |-> (color.hi \div 256) % 256]

\* *((uint32_t *) ppvBits) = color: the one pixel of the 32-bit BI_RGB DIB, whose
\* bytes in memory are blue, green, red, alpha
DIBPixel(color) ==
    [b |-> color.lo % 256, g |-> (color.lo \div 256) % 256,
     r |-> color.hi % 256, a |-> (color.hi \div 256) % 256]

\* the BLENDFUNCTION blend() fills in
SourceConstantAlpha == 255
AlphaFormat_Opaque == "0"
AlphaFormat == "AC_SRC_ALPHA"

\* x / 255 rounded to nearest
Div255(x) == (x + 127) \div 255

\* what a channel holds when the blend's sum does not fit a byte (a source
\* that is not pre-multiplied): saturated or truncated
OverflowModes == {"clamp", "wrap"}
Stored(sum, ovf) == IF sum <= 255 THEN sum ELSE IF ovf = "clamp" THEN 255 ELSE sum % 256

\* AC_SRC_OVER on one channel: the source is first scaled by
\* SourceConstantAlpha; with AC_SRC_ALPHA the destination keeps 1 - (scaled
\* source alpha), without it 1 - SourceConstantAlpha
BlendChannel(s, a, d, ovf) ==
    LET sca == SourceConstantAlpha
        keep == 255 - (IF AlphaFormat = "AC_SRC_ALPHA" THEN Div255(a * sca) ELSE sca)
    IN  Stored(Div255(s * sca) + Div255(keep * d), ovf)

\* AlphaBlend of the 1x1 source stretched over the rectangle
AlphaBlend(pix, rect, src, ovf) ==
    [p \in PixelIds |->
        IF p \in rect
        THEN Pixel(BlendChannel(src.r, src.a, pix[p].r, ovf),
                   BlendChannel(src.g, src.a, pix[p].g, ovf),
                   BlendChannel(src.b, src.a, pix[p].b, ovf))
        ELSE pix[p]]

\* the fill handler is not part of the run
DOff ==
    /\ d_pc = "off"
    /\ d_msg = "none"
    /\ d_color = DWORD(0, 0)
    /\ d_rect = {}
    /\ d_pix = [p \in PixelIds |-> Pixel(0, 0, 0)]
    /\ d_pix0 = d_pix
    /\ d_held = {}
    /\ d_ok = TRUE
    /\ d_sel = "none"
    /\ d_done = 0

DInit ==
    /\ d_pc = "idle"
    /\ d_msg = "none"
    /\ d_color = DWORD(0, 0)
    /\ d_rect = {}
    /\ d_pix \in [PixelIds -> DstSamples]
    /\ d_pix0 = d_pix
    /\ d_held = {}
    /\ d_ok = TRUE
    /\ d_sel = "none"
    /\ d_done = 0

\* windowWndProc, case msgFillSrc / msgFillOver: dc = GetDC(hwnd), which can
\* return NULL
windowWndProcGetDC ==
    /\ platform = "windows"
    /\ d_pc = "idle"
    /\ d_done < MaxFills
    /\ \E uMsg \in FillMessages, color \in Colors, rect \in Rects, dc \in {"dc", "NULL"} :
        /\ d_msg' = uMsg
        /\ d_color' = color
        /\ d_rect' = rect
        /\ d_held' = IF dc = "NULL" THEN d_held ELSE d_held \cup {"dc"}
        /\ d_ok' = (dc # "NULL")
        /\ d_pc' = IF uMsg = "msgFillSrc" THEN "fillSrc" ELSE "fillOver"
    /\ d_pix0' = d_pix
    /\ UNCHANGED <<platform, xvars, wvars, mvars, evars, svars, d_pix, d_sel, d_done>>

\* fillSrc: CreateSolidBrush, FillRect, DeleteObject; no failure is handled.
\* FillRect fails, and paints nothing, with a NULL dc or a NULL brush.
fillSrc ==
    /\ platform = "windows"
    /\ d_pc = "fillSrc"
    /\ \E brush \in {"brush", "NULL"} :
        LET painted == brush # "NULL" /\ "dc" \in d_held
        IN  /\ d_pix' = IF painted THEN FillRect(d_pix, d_rect, fillSrcColor(d_color))
                                   ELSE d_pix
            /\ d_ok' = (d_ok /\ painted)
            /\ d_held' = (d_held \cup (IF brush = "NULL" THEN {} ELSE {"brush"})) \ {"brush"}
    /\ d_pc' = "ReleaseDC"
    /\ UNCHANGED <<platform, xvars, wvars, mvars, evars, svars, d_msg, d_color, d_rect, d_pix0, d_sel, d_done>>

\* fillOver up to the store through ppvBits: mkbitmap returns the DIB section
\* or, unhandled, NULL; after a failed CreateDIBSection ppvBits is NULL or was
\* never set, and the store through it faults or lands somewhere else.
fillOver ==
    /\ platform = "windows"
    /\ d_pc = "fillOver"
    /\ \E bitmap \in {"bitmap", "NULL"} :
        IF bitmap # "NULL"
        THEN /\ d_held' = d_held \cup {"bitmap"}
             /\ d_pc' = "blend"
             /\ d_ok' = d_ok
        ELSE /\ d_held' = d_held
             /\ \E store \in {"fault", "stray"} :
                    d_pc' = IF store = "fault" THEN "crashed" ELSE "blend"
             /\ d_ok' = FALSE
    /\ UNCHANGED <<platform, xvars, wvars, mvars, evars, svars, d_msg, d_color, d_rect, d_pix, d_pix0, d_sel,
                   d_done>>

\* blend, then DeleteObject(bitmap) back in fillOver. SelectObject fails on a
\* NULL DC or a NULL bitmap; AlphaBlend fails unless the 32-bit bitmap is
\* selected into the source DC and dc is valid.
blend ==
    /\ platform = "windows"
    /\ d_pc = "blend"
    /\ \E compatibleDC \in {"compatibleDC", "NULL"}, ovf \in OverflowModes :
        LET selected == compatibleDC # "NULL" /\ "bitmap" \in d_held
            blended == selected /\ "dc" \in d_held
            after == AlphaBlend(d_pix, d_rect, DIBPixel(d_color), ovf)
        IN  /\ d_pix' = IF blended THEN after ELSE d_pix
            /\ d_ok' = (d_ok /\ blended)
            /\ d_sel' = IF compatibleDC = "NULL" THEN d_sel ELSE "default"
            /\ d_held' = d_held \ {"bitmap"}
    /\ d_pc' = "ReleaseDC"
    /\ UNCHANGED <<platform, xvars, wvars, mvars, evars, svars, d_msg, d_color, d_rect, d_pix0, d_done>>

\* windowWndProc after the fill: ReleaseDC(hwnd, dc), break, DefWindowProcW
windowWndProcReleaseDC ==
    /\ platform = "windows"
    /\ d_pc = "ReleaseDC"
    /\ d_held' = d_held \ {"dc"}
    /\ d_pc' = "idle"
    /\ d_done' = d_done + 1
    /\ UNCHANGED <<platform, xvars, wvars, mvars, evars, svars, d_msg, d_color, d_rect, d_pix, d_pix0, d_ok,
                   d_sel>>

DNext ==
    \/ windowWndProcGetDC
    \/ fillSrc
    \/ fillOver
    \/ blend
    \/ windowWndProcReleaseDC

\* ------------------------------------------------------------------ mouse messages
\* values of a 16-bit half of lParam
WordSamples == {0, 1, 32767, 32768, 65535}

LOWORD(l) == l.lo
HIWORD(l) == l.hi
\* the cast (int)(short) of a 16-bit value
short(x) == IF x >= 32768 THEN x - 65536 ELSE x

\* the coordinate taken with LOWORD alone
GET_X_LPARAM_Unsigned(lp) == LOWORD(lp)

\* windowsx.h: ((int)(short)LOWORD(lp)) and ((int)(short)HIWORD(lp))
GET_X_LPARAM(lp) == short(LOWORD(lp))
GET_Y_LPARAM(lp) == short(HIWORD(lp))

MOff ==
    /\ m_pc = "off"
    /\ m_msg = "none"
    /\ m_lParam = DWORD(0, 0)
    /\ m_calls = <<>>

MInit ==
    /\ m_pc = "idle"
    /\ m_msg \in MouseMessages \cup KeyMessages
    /\ m_lParam \in {DWORD(hi, lo) : hi \in WordSamples, lo \in WordSamples}
    /\ m_calls = <<>>

\* windowWndProc for a mouse or a key message: the mouse cases call
\* sendMouseEvent once and return 0, the key cases break
windowWndProcMouse ==
    /\ platform = "windows"
    /\ m_pc = "idle"
    /\ m_calls' = IF m_msg \in MouseMessages
                  THEN <<[cb |-> "sendMouseEvent", uMsg |-> m_msg,
                          x |-> GET_X_LPARAM(m_lParam), y |-> GET_Y_LPARAM(m_lParam)]>>
                  ELSE <<>>
    /\ m_pc' = "done"
    /\ UNCHANGED <<platform, xvars, wvars, dvars, evars, svars, m_msg, m_lParam>>

MNext == windowWndProcMouse

\* ------------------------------------------------------------------ error adapter
\* values GetLastError can return, as signed 32 bits: the small codes, the
\* ends of the 16-bit code range, the largest positive value, and values with
\* the top bit set
LeSamples ==
    (0 .. 127) \cup {1400, 65535, 65536, 65537, 2147483647, -2147483647 - 1, -2147483647,
                     -2147467259, -65536, -1}

EOff ==
    /\ e_pc = "off"
    /\ e_le = 0
    /\ e_hr = 0
    /\ e_lr = 0

EInit ==
    /\ e_pc = "idle"
    /\ e_le \in LeSamples
    /\ e_hr = 0
    /\ e_lr = 0

\* lastErrorToHRESULT() and lastErrorToLRESULT() with GetLastError() = e_le
lastErrorToHRESULTCall ==
    /\ platform = "windows"
    /\ e_pc = "idle"
    /\ e_hr' = lastErrorToHRESULT(e_le)
    /\ e_lr' = lastErrorToLRESULT(e_le)
    /\ e_pc' = "done"
    /\ UNCHANGED <<platform, xvars, wvars, dvars, mvars, svars, e_le>>

ENext == lastErrorToHRESULTCall

\* ------------------------------------------------------------------ start
\* startDriver with eglBindAPI called before eglInitialize
StartDriverSteps_BindFirst ==
    <<"XOpenDisplay", "eglGetDisplay", "eglBindAPI", "eglInitialize", "eglChooseConfig",
      "eglGetConfigAttrib", "XGetVisualInfo", "XCreateColormap", "eglCreateContext">>

\* the calls of startDriver whose result is tested, in program order; a failed
\* one is named on stderr and followed by exit(1)
StartDriverSteps ==
    <<"XOpenDisplay", "eglGetDisplay", "eglInitialize", "eglBindAPI", "eglChooseConfig",
      "eglGetConfigAttrib", "XGetVisualInfo", "XCreateColormap", "eglCreateContext">>

\* the calls of initWindowClass and of initUtilityWindow whose result is tested
InitWindowClassSteps == <<"LoadIconW", "LoadCursorW", "RegisterClassW">>
InitUtilityWindowSteps == <<"LoadIconW", "LoadCursorW", "RegisterClassW", "CreateWindowExW">>

NoResult == [stderr |-> "", hr |-> 0]

SOff ==
    /\ s_fn = "off"
    /\ s_pc = "returned"
    /\ s_log = <<>>
    /\ s_result = NoResult
    /\ s_utilityWindow = utilityWindow

SInit ==
    /\ s_fn \in {"startDriver", "initWindowClass", "initUtilityWindow"}
    /\ (s_fn = "startDriver") <=> (platform = "x11")
    /\ s_pc = "running"
    /\ s_log = <<>>
    /\ s_result = NoResult
    /\ s_utilityWindow = NULL

\* startDriver: the next tested call; on failure fprintf and exit(1)
startDriver ==
    /\ platform = "x11"
    /\ s_fn = "startDriver"
    /\ s_pc = "running"
    /\ \E ok \in BOOLEAN :
        LET call == StartDriverSteps[Len(s_log) + 1]
        IN  /\ s_log' = Append(s_log, [call |-> call, ok |-> ok])
            /\ IF ~ok
               THEN /\ s_result' = [stderr |-> call, hr |-> 0]
                    /\ s_pc' = "exit"
               ELSE /\ s_result' = s_result
                    /\ s_pc' = IF Len(s_log) + 1 = Len(StartDriverSteps)
                               THEN "returned" ELSE "running"
    /\ UNCHANGED <<platform, xvars, wvars, dvars, mvars, evars, s_fn, s_utilityWindow>>

\* initWindowClass: the next tested call; on failure return
\* lastErrorToHRESULT(), after the last one return S_OK
initWindowClass ==
    /\ platform = "windows"
    /\ s_fn = "initWindowClass"
    /\ s_pc = "running"
    /\ \E ok \in BOOLEAN, le \in LeSamples :
        LET call == InitWindowClassSteps[Len(s_log) + 1]
        IN  /\ ok => le = 0
            /\ s_log' = Append(s_log, [call |-> call, ok |-> ok])
            /\ IF ~ok
               THEN /\ s_result' = [stderr |-> "", hr |-> lastErrorToHRESULT(le)]
                    /\ s_pc' = "returned"
               ELSE IF Len(s_log) + 1 = Len(InitWindowClassSteps)
               THEN /\ s_result' = [stderr |-> "", hr |-> S_OK]
                    /\ s_pc' = "returned"
               ELSE /\ s_result' = s_result
                    /\ s_pc' = "running"
    /\ UNCHANGED <<platform, xvars, wvars, dvars, mvars, evars, s_fn, s_utilityWindow>>

\* initUtilityWindow: as initWindowClass, then utilityWindow = CreateWindowExW(...)
initUtilityWindow ==
    /\ platform = "windows"
    /\ s_fn = "initUtilityWindow"
    /\ s_pc = "running"
    /\ \E ok \in BOOLEAN, le \in LeSamples :
        LET call == InitUtilityWindowSteps[Len(s_log) + 1]
        IN  /\ ok => le = 0
            /\ s_log' = Append(s_log, [call |-> call, ok |-> ok])
            /\ s_utilityWindow' = IF call = "CreateWindowExW"
                                  THEN (IF ok THEN utilityWindow ELSE NULL)
                                  ELSE s_utilityWindow
            /\ IF ~ok
               THEN /\ s_result' = [stderr |-> "", hr |-> lastErrorToHRESULT(le)]
                    /\ s_pc' = "returned"
               ELSE IF Len(s_log) + 1 = Len(InitUtilityWindowSteps)
               THEN /\ s_result' = [stderr |-> "", hr |-> S_OK]
                    /\ s_pc' = "returned"
               ELSE /\ s_result' = s_result
                    /\ s_pc' = "running"
    /\ UNCHANGED <<platform, xvars, wvars, dvars, mvars, evars, s_fn>>

SNext ==
    \/ startDriver
    \/ initWindowClass
    \/ initUtilityWindow

\* ------------------------------------------------------------------ system
Init ==
    /\ platform \in {"x11", "windows"}
    /\ XInit
    /\ WInit
    /\ DOff
    /\ MOff
    /\ EOff
    /\ SOff

Next ==
    \/ XNext
    \/ WNext

Spec == Init /\ [][Next]_vars

\* the X11 build alone
InitX11 == Init /\ platform = "x11"
SpecX11 == InitX11 /\ [][XNext]_vars
\* the X11 pump alone, window 1 having been created and shown for it; the UI
\* thread goes on through the loop of processEvents
XShown ==
    /\ x_pc = "idle"
    /\ x_queue = <<>>
    /\ x_serial = 0
    /\ x_taken = <<>>
    /\ x_calls = <<>>
    /\ x_win = [w \in XWindowIds |->
                  IF w = 1 THEN [exists |-> TRUE, mapped |-> TRUE, surfaces |-> 1,
                                 width |-> 640, height |-> 480]
                  ELSE NoWindow]
    /\ x_last = [op |-> "doShowWindow", id |-> 1]
InitX11Pump == platform = "x11" /\ XShown /\ WInit /\ DOff /\ MOff /\ EOff /\ SOff
XPumpNext ==
    \/ XServerSend
    \/ processEventsCall
    \/ processEventsStep
    \/ processEventsReturn
SpecX11Pump ==
    /\ InitX11Pump
    /\ [][XPumpNext]_vars
    /\ WF_vars(processEventsStep)
    /\ WF_vars(processEventsReturn)

\* the Windows build alone
InitWin == Init /\ platform = "windows"
SpecWin == InitWin /\ [][WNext]_vars

\* the fill handler of the Windows build alone
InitDraw == platform = "windows" /\ XInit /\ WInit /\ DInit /\ MOff /\ EOff /\ SOff
SpecDraw == InitDraw /\ [][DNext]_vars

\* windowWndProc on one mouse or key message
InitMouse == platform = "windows" /\ XInit /\ WInit /\ DOff /\ MInit /\ EOff /\ SOff
SpecMouse == InitMouse /\ [][MNext]_vars

\* the error adapter on one last-error code
InitError == platform = "windows" /\ XInit /\ WInit /\ DOff /\ MOff /\ EInit /\ SOff
SpecError == InitError /\ [][ENext]_vars

\* the start functions of either build, one call each
InitStart ==
    /\ platform \in {"x11", "windows"}
    /\ XInit /\ WInit /\ DOff /\ MOff /\ EOff /\ SInit
SpecStart == InitStart /\ [][SNext]_vars


\* ------------------------------------------------------------------ properties
Range(q) == {q[i] : i \in 1..Len(q)}
Frames(t) == Range(w_stack[t])
Last(q) == q[Len(q)]

XCallsFor(cb, w) == SelectSeq(x_calls, LAMBDA c : c.cb = cb /\ c.window = w)
\* the Expose events taken so far that end a burst on window w
BurstEnds(w) ==
    SelectSeq(x_taken, LAMBDA e : e.type = "Expose" /\ e.window = w /\ e.count = 0)

\* C1: in processEvents every expose burst on a window yields exactly one
\* onExpose for that window: the onExpose callbacks of a window are, one for
\* one and in order, the taken Expose events of that window with count = 0, so
\* an Expose with count # 0 yields none.
C1_OneExposePerBurst ==
    \A w \in XWindowIds :
        /\ Len(XCallsFor("onExpose", w)) = Len(BurstEnds(w))
        /\ \A i \in 1..Len(BurstEnds(w)) :
              XCallsFor("onExpose", w)[i].serial = BurstEnds(w)[i].serial

\* A burst of two (count 1, then count 0) on one window has been processed.
C1_Witness ==
    \E i \in 1..(Len(x_taken) - 1) :
        /\ x_taken[i].type = "Expose" /\ x_taken[i].count # 0
        /\ x_taken[i + 1].type = "Expose" /\ x_taken[i + 1].count = 0
        /\ x_taken[i + 1].window = x_taken[i].window
        /\ Len(XCallsFor("onExpose", x_taken[i].window)) = 1

SizeChanging(m) == m.message = "WM_WINDOWPOSCHANGED" /\ (m.flags % 2) = 0
WCallsOf(cb) == SelectSeq(w_calls, LAMBDA c : c.cb = cb)

\* C2: a WM_WINDOWPOSCHANGED with SWP_NOSIZE set emits no size event, one with
\* SWP_NOSIZE clear emits exactly one, and that event carries the window's
\* client rectangle whatever GetClientRect answered.
C2_SizeEventCarriesClientRect ==
    /\ Len(WCallsOf("sendSizeEvent")) = Len(SelectSeq(w_dispatched, SizeChanging))
    /\ \A i \in 1..Len(WCallsOf("sendSizeEvent")) :
          /\ WCallsOf("sendSizeEvent")[i].serial = SelectSeq(w_dispatched, SizeChanging)[i].serial
          /\ WCallsOf("sendSizeEvent")[i].r = ClientRect(WCallsOf("sendSizeEvent")[i].hwnd)

\* numbers of the requests of thread t that are queued or being handled
PendingNs(t) ==
    {m.n : m \in {x \in Range(w_sent) : x.from = t}}
        \cup {f.n : f \in {x \in UNION {Frames(u) : u \in Threads} : x.from = t}}
\* thread t has not returned from SendMessageW: it is blocked in a cross-thread
\* send, or the window procedure it called directly is still on its stack
InSendMessageW(t) == w_wait[t] \/ \E f \in Frames(t) : f.from = t

\* C3: SendMessageW, hence sendFill, returns only after the window procedure
\* has handled the message: while a request is queued or being handled its
\* sender is still inside the call that sent it (so the RECT in sendFill's
\* frame is live), and a thread that is outside the call holds the reply of
\* the latest request it submitted.
C3_ReplyBeforeReturn ==
    \A t \in Threads :
        /\ \A n \in PendingNs(t) : n = w_sub[t] /\ InSendMessageW(t)
        /\ ~InSendMessageW(t) => w_reply[t].n = w_sub[t]

\* The UI thread is handling a fill that a caller thread is blocked on.
C3_Witness ==
    \E t \in Callers : \E f \in Frames("ui") :
        f.from = t /\ f.message \in FillMessages /\ w_wait[t]

\* C4: every request handler runs on the UI thread, on windows the UI thread
\* owns; only the top activation of the UI thread's stack runs, at most one
\* caller's request is being handled at a time, and each submitter's requests
\* are started in the order it submitted them.
C4_SerializedOnUIThread ==
    /\ \A t \in Callers : w_stack[t] = <<>>
    /\ \A h \in WWindowIds : w_win[h].state # "none" => w_win[h].owner = "ui"
    /\ \A i \in 1..(Len(w_stack["ui"]) - 1) : w_stack["ui"][i].pc = "callback"
    /\ Cardinality({i \in 1..Len(w_stack["ui"]) : w_stack["ui"][i].from \in Callers}) <= 1
    /\ \A t \in Threads : w_exec[t] <= w_sub[t]
    /\ \A m \in Range(w_sent) : m.n > w_exec[m.from]
    /\ \A i, j \in 1..Len(w_sent) :
          (i < j /\ w_sent[i].from = w_sent[j].from) => w_sent[i].n < w_sent[j].n
    /\ \A t \in Threads : \A f \in Frames(t) : f.from \in Threads => f.n <= w_exec[f.from]

\* Both callers are blocked in a request at once: one is being handled on the
\* UI thread, the other is still queued.
C4_Witness ==
    /\ w_wait["c1"] /\ w_wait["c2"]
    /\ \E f \in Frames("ui") : f.from \in Callers
    /\ w_sent # <<>>

\* C5: a fill sent from the UI thread (from inside a callback) is a direct
\* call: it is never queued, the UI thread never blocks, the activation sits on
\* the UI thread's stack right above the callback that made it, the message
\* loop has retrieved nothing since that callback's message, and a fill's reply
\* is the same whichever thread sent it.
C5_ReentrantFromUIThread ==
    /\ ~w_wait["ui"]
    /\ \A m \in Range(w_sent) : m.from # "ui"
    /\ \A t \in Threads : \A i \in 1..Len(w_stack[t]) :
          w_stack[t][i].from = "ui" =>
              /\ t = "ui"
              /\ i > 1
              /\ w_stack[t][i - 1].pc = "callback"
    /\ (w_stack["ui"] # <<>> /\ w_stack["ui"][1].from = "pump") =>
          w_stack["ui"][1].serial = Last(w_retrieved).serial
    /\ \A t \in Threads :
          w_reply[t].message \in FillMessages =>
              w_reply[t].lresult = 0 /\ w_reply[t].hwnd = NULL

\* A fill sent from the UI thread has been handled and has replied.
C5_Witness ==
    /\ w_reply["ui"].n = 1
    /\ w_reply["ui"].message \in FillMessages

\* C6: mainMessagePump has returned exactly when the last message GetMessage
\* retrieved is WM_QUIT, and the messages retrieved before it were dispatched
\* once each, in retrieval order.
C6_PumpReturnsOnQuit ==
    /\ (w_pump = "returned") <=>
          (w_retrieved # <<>> /\ Last(w_retrieved).message = "WM_QUIT")
    /\ w_dispatched = SelectSeq(w_retrieved, LAMBDA m : m.message # "WM_QUIT")
    /\ \A i, j \in 1..Len(w_dispatched) : i < j => w_dispatched[i].serial < w_dispatched[j].serial

\* The loop has returned after dispatching a message.
C6_Witness == w_pump = "returned" /\ Len(w_dispatched) >= 1

\* the callback an X event calls for, if any
XCallbackOf(e) ==
    CASE e.type \in {"ButtonPress", "ButtonRelease", "MotionNotify"} -> "onMouse"
      [] e.type = "ConfigureNotify" -> "onResize"
      [] e.type = "Expose" /\ e.count = 0 -> "onExpose"
      [] OTHER -> "none"
\* the callback a window message calls for, if any
WCallbackOf(m) ==
    CASE m.message = "WM_PAINT" -> "handlePaint"
      [] SizeChanging(m) -> "sendSizeEvent"
      [] m.message \in MouseMessages -> "sendMouseEvent"
      [] OTHER -> "none"
XCaused == SelectSeq(x_taken, LAMBDA e : XCallbackOf(e) # "none")
WCaused == SelectSeq(w_dispatched, LAMBDA m : WCallbackOf(m) # "none")

\* C7: no native event is lost or reordered. X11: the events taken and the
\* events pending are, in order, all the events the server sent, and the
\* callbacks are, one for one and in order, the taken events that call for
\* one. Windows: every posted message is retrieved, still queued in order, or
\* was for a window destroyed since, and the callbacks are, one for one and in
\* order, the dispatched messages that call for one.
C7_NoEventLostOrReordered ==
    /\ \A i \in 1..Len(x_taken \o x_queue) : (x_taken \o x_queue)[i].serial = i
    /\ Len(x_taken \o x_queue) = x_serial
    /\ Len(x_calls) = Len(XCaused)
    /\ \A i \in 1..Len(x_calls) :
          /\ x_calls[i].serial = XCaused[i].serial
          /\ x_calls[i].window = XCaused[i].window
          /\ x_calls[i].cb = XCallbackOf(XCaused[i])
    /\ \A i \in 1..Len(w_posted) :
          \/ w_posted[i] \in Range(w_retrieved)
          \/ w_posted[i] \in Range(w_msgq)
          \/ (w_posted[i].hwnd # NULL /\ w_win[w_posted[i].hwnd].state = "destroyed")
    /\ \A i, j \in 1..Len(w_msgq) : i < j => w_msgq[i].serial < w_msgq[j].serial
    /\ \A i \in 1..Len(w_retrieved) : \A j \in 1..Len(w_msgq) :
          w_retrieved[i].serial < w_msgq[j].serial
    /\ Len(w_calls) = Len(WCaused)
    /\ \A i \in 1..Len(w_calls) :
          /\ w_calls[i].serial = WCaused[i].serial
          /\ w_calls[i].hwnd = WCaused[i].hwnd
          /\ w_calls[i].cb = WCallbackOf(WCaused[i])

\* A message posted while a request was being handled on the UI thread has
\* had its callback, after an earlier message's callback.
C7_Witness ==
    /\ Len(w_calls) >= 2
    /\ \E m \in Range(w_dispatched) : m.during /\ m.serial = Last(w_calls).serial

\* C8: every window that has been destroyed got exactly one on-close callback
\* or destruction acknowledgement, and a window that still lives got none.
C8_ExactlyOneClose ==
    \A h \in WWindowIds :
        LET closes == Len(SelectSeq(w_calls, LAMBDA c : c.cb = "onClose" /\ c.hwnd = h))
                      + w_win[h].acks
        IN  /\ w_win[h].state = "destroyed" => closes = 1
            /\ w_win[h].state = "live" => closes = 0

\* C9: doShowWindow on a window that is already shown changes nothing: no
\* window ever has more than one EGL surface, and no doShowWindow on a window
\* that had a surface ends in exit(1).
C9_ShowAgainIsNoOp ==
    /\ \A w \in XWindowIds : x_win[w].surfaces <= 1
    /\ ~(x_pc = "exit" /\ x_last.op = "doShowWindow" /\ x_win[x_last.id].surfaces >= 1)

\* doShowWindow has been called on window w
ShowCalled(w) == x_win[w].surfaces >= 1 \/ (x_last.op = "doShowWindow" /\ x_last.id = w)

Filled(uMsg) == d_msg = uMsg /\ d_ok /\ d_pc \in {"ReleaseDC", "idle"}

\* C12: for a color 0xAARRGGBB fillSrc hands CreateSolidBrush the COLORREF
\* 0x00BBGGRR, and every pixel of the rectangle becomes (RR, GG, BB) whatever
\* AA is; the pixels outside keep their value.
C12_FillSrcColor ==
    Filled("msgFillSrc") =>
        \E a \in AlphaSamples, r \in ChannelSamples, g \in ChannelSamples, b \in ChannelSamples :
            /\ d_color = ARGB(a, r, g, b)
            /\ fillSrcColor(d_color) = (b * 65536) + (g * 256) + r
            /\ \A p \in PixelIds :
                  d_pix[p] = IF p \in d_rect THEN Pixel(r, g, b) ELSE d_pix0[p]

\* fillSrc has painted a color whose red and blue differ, with a non-zero alpha
\* byte, over a pixel that held something else.
C12_Witness ==
    /\ Filled("msgFillSrc")
    /\ d_color = ARGB(128, 1, 0, 255)
    /\ \E p \in d_rect : d_pix0[p] # d_pix[p]

\* C13 as claimed: fillOver with alpha byte 0 leaves the pixels as they were,
\* for every RR, GG, BB.
C13_AlphaZeroUnchanged ==
    (Filled("msgFillOver") /\ ShiftRightAndFF(d_color, 24) = 0) => d_pix = d_pix0

\* C13 as amended: with alpha byte 0 the blend adds the source's color bytes
\* to the destination's (a sum over 255 is saturated or truncated), so the
\* pixels stay as they were exactly for the pre-multiplied color 0x00000000.
C13_AlphaZeroAddsSource ==
    (Filled("msgFillOver") /\ ShiftRightAndFF(d_color, 24) = 0) =>
        /\ \A p \in PixelIds \ d_rect : d_pix[p] = d_pix0[p]
        /\ \A p \in d_rect :
              /\ d_pix[p].r \in {Stored(d_pix0[p].r + ShiftRightAndFF(d_color, 16), m) : m \in OverflowModes}
              /\ d_pix[p].g \in {Stored(d_pix0[p].g + ShiftRightAndFF(d_color, 8), m) : m \in OverflowModes}
              /\ d_pix[p].b \in {Stored(d_pix0[p].b + ShiftRightAndFF(d_color, 0), m) : m \in OverflowModes}
        /\ d_color = DWORD(0, 0) => d_pix = d_pix0

\* fillOver has blended 0x00000000 over a pixel that is not black.
C13_Witness ==
    /\ Filled("msgFillOver")
    /\ d_color = DWORD(0, 0)
    /\ \E p \in d_rect : d_pix[p] # Pixel(0, 0, 0)

\* C14: fillOver with alpha byte 255 leaves the pixels fillSrc leaves for the
\* same color and the same destination.
C14_OpaqueOverIsSrc ==
    (Filled("msgFillOver") /\ ShiftRightAndFF(d_color, 24) = 255) =>
        d_pix = FillRect(d_pix0, d_rect, fillSrcColor(d_color))

\* fillOver has blended an opaque color whose red and blue differ over a
\* pixel that is not black.
C14_Witness ==
    /\ Filled("msgFillOver")
    /\ d_color = ARGB(255, 1, 0, 255)
    /\ \E p \in d_rect : d_pix0[p] # Pixel(0, 0, 0)

\* C18: once a fill request is over, on every path, nothing it acquired is
\* still held, and the compatible DC was deleted with its previous bitmap
\* selected again.
C18_NoResourceHeld ==
    /\ d_pc \in {"idle", "crashed"} => d_held = {}
    /\ d_sel \in {"none", "default"}


\* C11: an operation against a window that is destroyed fails and reports the
\* failure to its caller: a request that found no live window behind its
\* handle replied with a failure value, and so did a destroy-window of a
\* window that was not live.
C11_NotFoundReported ==
    \A t \in Threads :
        /\ (w_reply[t].n > 0 /\ w_reply[t].message = "none") => w_reply[t].lresult < 0
        /\ (w_reply[t].message = "msgDestroyWindow" /\ w_reply[t].lresult = lS_OK) =>
              \E h \in WWindowIds : w_win[h].state = "destroyed" /\ w_win[h].acks = 1


\* the ConfigureNotify events taken so far for window w
ConfiguresOf(w) == SelectSeq(x_taken, LAMBDA e : e.type = "ConfigureNotify" /\ e.window = w)
\* the size events sent so far for window h
SizeEventsOf(h) == SelectSeq(w_calls, LAMBDA c : c.cb = "sendSizeEvent" /\ c.hwnd = h)

\* C15: the last size event delivered for a window carries the width and
\* height the platform reported last: on X11 those of the last ConfigureNotify
\* taken for it, on Windows those of the client rectangle the window has at its
\* last size-changing WM_WINDOWPOSCHANGED.
C15_LastSizeIsPlatformSize ==
    /\ \A w \in XWindowIds :
          ConfiguresOf(w) # <<>> =>
              /\ XCallsFor("onResize", w) # <<>>
              /\ Last(XCallsFor("onResize", w)).width = Last(ConfiguresOf(w)).width
              /\ Last(XCallsFor("onResize", w)).height = Last(ConfiguresOf(w)).height
    /\ \A h \in WWindowIds :
          SizeEventsOf(h) # <<>> =>
              /\ Last(SizeEventsOf(h)).r.right - Last(SizeEventsOf(h)).r.left
                    = ClientRect(h).right - ClientRect(h).left
              /\ Last(SizeEventsOf(h)).r.bottom - Last(SizeEventsOf(h)).r.top
                    = ClientRect(h).bottom - ClientRect(h).top


\* C17: every mouse message makes exactly one sendMouseEvent call, a key
\* message none, and the call's x and y are the low and the high 16 bits of
\* lParam read as signed 16-bit values: congruent to them modulo 65536, within
\* -32768..32767, hence negative from 0x8000 on.
C17_MouseCoordinatesSigned ==
    m_pc = "done" =>
        /\ Len(m_calls) = (IF m_msg \in MouseMessages THEN 1 ELSE 0)
        /\ \A i \in 1..Len(m_calls) :
              /\ m_calls[i].cb = "sendMouseEvent"
              /\ m_calls[i].uMsg = m_msg
              /\ (m_calls[i].x - m_lParam.lo) % 65536 = 0
              /\ (m_calls[i].y - m_lParam.hi) % 65536 = 0
              /\ m_calls[i].x \in -32768..32767
              /\ m_calls[i].y \in -32768..32767
              /\ (m_lParam.lo >= 32768) <=> (m_calls[i].x < 0)
              /\ (m_lParam.hi >= 32768) <=> (m_calls[i].y < 0)

\* A mouse move with x = 0x8000 and y = 0xFFFF has been handled: x is -32768
\* and y is -1.
C17_Witness ==
    /\ m_pc = "done"
    /\ m_msg = "WM_MOUSEMOVE"
    /\ m_lParam = DWORD(65535, 32768)
    /\ Len(m_calls) = 1
    /\ m_calls[1].x = -32768
    /\ m_calls[1].y = -1

\* C19: lastErrorToHRESULT never returns a success value: the result is
\* negative, hence not S_OK, for every last-error code; it is E_FAIL for 0;
\* for a code in 1..0xFFFF it is the code under FACILITY_WIN32 with the failure
\* bit; and lastErrorToLRESULT gives the same value.
C19_NeverSuccess ==
    e_pc = "done" =>
        /\ e_hr < 0
        /\ e_hr # S_OK
        /\ e_le = 0 => e_hr = E_FAIL
        /\ e_le \in 1..65535 => e_hr = (-2147024896) + e_le
        /\ e_le < 0 => e_hr = e_le
        /\ e_lr = e_hr

\* The adapter has run with last error 0.
C19_Witness == e_pc = "done" /\ e_le = 0 /\ e_hr = E_FAIL

\* C16: a start function runs its sub-steps in program order and stops at the
\* first that fails. startDriver returns only after all nine succeeded, and on
\* a failure names the failed call on stderr before exit(1); initWindowClass
\* and initUtilityWindow return S_OK only after all their calls succeeded, and
\* otherwise a failure HRESULT, utilityWindow being NULL after a failed start.
C16_StartFailsFast ==
    LET order == CASE s_fn = "startDriver" ->
                        <<"XOpenDisplay", "eglGetDisplay", "eglInitialize", "eglBindAPI",
                          "eglChooseConfig", "eglGetConfigAttrib", "XGetVisualInfo",
                          "XCreateColormap", "eglCreateContext">>
                   [] s_fn = "initWindowClass" -> <<"LoadIconW", "LoadCursorW", "RegisterClassW">>
                   [] s_fn = "initUtilityWindow" ->
                        <<"LoadIconW", "LoadCursorW", "RegisterClassW", "CreateWindowExW">>
                   [] OTHER -> <<>>
        allOk == Len(s_log) = Len(order) /\ \A i \in 1..Len(s_log) : s_log[i].ok
        failed == s_log # <<>> /\ ~Last(s_log).ok
    IN  s_fn # "off" =>
          /\ Len(s_log) <= Len(order)
          /\ \A i \in 1..Len(s_log) : s_log[i].call = order[i]
          /\ \A i \in 1..(Len(s_log) - 1) : s_log[i].ok
          /\ s_pc = "running" <=> (~failed /\ ~allOk)
          /\ s_fn = "startDriver" =>
                /\ s_pc = "returned" <=> allOk
                /\ s_pc = "exit" <=> failed
                /\ failed => s_result.stderr = Last(s_log).call
          /\ s_fn # "startDriver" =>
                /\ s_pc # "exit"
                /\ s_pc = "returned" =>
                      /\ s_result.hr = S_OK <=> allOk
                      /\ failed => s_result.hr < 0
                /\ (s_fn = "initUtilityWindow" /\ allOk) <=> s_utilityWindow # NULL

\* startDriver has stopped at a failed eglChooseConfig after four calls
\* succeeded.
C16_Witness ==
    /\ s_fn = "startDriver"
    /\ s_pc = "exit"
    /\ Len(s_log) = 5
    /\ s_result.stderr = "eglChooseConfig"


\* C20: processEvents removes every pending event once, in order, and calls
\* back once for an event it translates and not at all for any other; it goes
\* on only while an event is pending, returns only when none is, makes no call
\* and removes nothing on the way out, and a call that has started returns
\* once events stop arriving.
C20_ProcessEventsDrains ==
    /\ [](/\ \A i \in 1..Len(x_taken \o x_queue) : (x_taken \o x_queue)[i].serial = i
          /\ \A i \in 1..Len(x_taken) :
                Cardinality({j \in 1..Len(x_calls) : x_calls[j].serial = x_taken[i].serial})
                    = (IF XCallbackOf(x_taken[i]) = "none" THEN 0 ELSE 1))
    /\ [][/\ (x_pc = "processEvents" /\ x_pc' = "idle") =>
                (x_queue = <<>> /\ x_calls' = x_calls /\ x_taken' = x_taken)
          /\ (x_pc = "processEvents" /\ x_pc' = "processEvents" /\ x_taken' # x_taken) =>
                (x_queue # <<>> /\ x_taken' = Append(x_taken, Head(x_queue))
                                /\ x_queue' = Tail(x_queue))
          /\ x_pc # "processEvents" => (x_taken' = x_taken /\ x_calls' = x_calls)]_vars
    /\ (x_pc = "processEvents") ~> (x_pc = "idle" /\ x_queue = <<>>)

\* processEvents has returned after removing two events, one of them a
\* MapNotify it does not translate, with one callback made.
C20_Witness ==
    /\ x_pc = "idle"
    /\ Len(x_taken) = 2
    /\ x_queue = <<>>
    /\ \E i \in 1..2 : x_taken[i].type = "MapNotify"
    /\ Len(x_calls) = 1

====
